---- MODULE Spec2Model ----
(***************************************************************************)
(* CryptoPaymentsService (src/cryptopay/service.py): wallet provisioning,  *)
(* invoice creation and payment reconciliation, over the repository,       *)
(* blockchain-reader, network-client and security-provider collaborators.  *)
(*                                                                         *)
(* Every service method is translated once, as a sequence of steps (one    *)
(* per collaborator call).  A step is a pure operator from (frame, world,  *)
(* environment) to (frame, world): the frame holds the method's local      *)
(* variables and its position, the world holds the three stores.           *)
(*   Spec      runs each call to completion in one action (sequential      *)
(*             callers), over stores that enforce no constraint;           *)
(*   SpecConc  runs the same steps one at a time in several processes      *)
(*             (concurrent callers).                                       *)
(***************************************************************************)
EXTENDS Integers, Sequences, FiniteSets, TLC

VARIABLES
    wallets,        \* wallet store: sequence of Wallet records, id = position
    invoices,       \* invoice store: sequence of Invoice records, id = position
    transactions,   \* transaction store: sequence of Transaction records
    paidLog,        \* history: one entry per update_invoice_status(id, PAID)
    now,            \* the clock read by int(time.time())
    unique,         \* whether the stores enforce their uniqueness constraints
    last,           \* Spec: the outcome of the last completed call
    procs           \* SpecConc: the frame of each running call

vars == <<wallets, invoices, transactions, paidLog, now, unique, last, procs>>

----------------------------------------------------------------------------
\* Bounds of the model.
MaxInvoices == 2
MaxTime == 2
MaxExpiry == 1
MaxWallets == 5
MaxTransactions == 3
NumProcs == 2

\* Input domains.  Wallets are provisioned for Users x Networks; invoices
\* are created for one user on one network, and the blockchain reader
\* answers with a transaction of any hash on that network.
Users == {1, 2}
Networks == {"btc", "eth"}
InvoiceUsers == {1}
InvoiceNetworks == {"btc"}
\* Private keys are bytes: b"k1", b"k2".
K1 == <<107, 49>>
K2 == <<107, 50>>
InvoiceKeys == {K1}
Hashes == {"h1", "h2"}
InvoiceHashes == {"h1"}
Keys == {K1, K2}
Procs == 1..NumProcs

\* Optional[T]: None is the empty sequence, a value x is <<x>>.
None == <<>>
Some(x) == <<x>>
IsSome(o) == o # <<>>
Get(o) == o[1]

PENDING == "PENDING"
PAID == "PAID"
EXPIRED == "EXPIRED"

\* id=0 in the constructors: "Will be set by repository".
UnsetId == 0

----------------------------------------------------------------------------
\* Collaborators outside src/: the stores (spec.md section 6).

WalletRepository_get_wallet_for_user(ws, user_id, network) ==
    LET hits == {k \in 1..Len(ws) : ws[k].user_id = user_id /\ ws[k].network = network}
    IN  IF hits = {} THEN None
        ELSE Some(ws[CHOOSE k \in hits : \A j \in hits : k <= j])

\* save(Wallet) -> Wallet: assigns the identifier; a store that enforces
\* uniqueness on (user_id, network) rejects a second wallet for the pair.
WalletRepository_save_wallet(ws, wallet, enforce) ==
    IF enforce /\ IsSome(WalletRepository_get_wallet_for_user(ws, wallet.user_id, wallet.network))
    THEN [ok |-> FALSE, store |-> ws, value |-> None]
    ELSE LET saved == [wallet EXCEPT !.id = Len(ws) + 1]
         IN  [ok |-> TRUE, store |-> Append(ws, saved), value |-> Some(saved)]

InvoiceRepository_get_invoice_by_id(is, id) ==
    IF id \in 1..Len(is) THEN Some(is[id]) ELSE None

InvoiceRepository_save_invoice(is, invoice) ==
    LET saved == [invoice EXCEPT !.id = Len(is) + 1]
    IN  [store |-> Append(is, saved), value |-> saved]

\* updateStatus(id, status) -> Invoice: an unconditional write of the status.
InvoiceRepository_update_invoice_status(is, id, status) ==
    LET store == [is EXCEPT ![id].status = status]
    IN  [store |-> store, value |-> store[id]]

TransactionRepository_get_transaction_by_hash_and_network(ts, hash, network) ==
    LET hits == {k \in 1..Len(ts) : ts[k].hash = hash /\ ts[k].network = network}
    IN  IF hits = {} THEN None
        ELSE Some(ts[CHOOSE k \in hits : \A j \in hits : k <= j])

\* save(Transaction) -> Transaction; a store that enforces uniqueness on
\* (hash, network) rejects a second record for the pair.
TransactionRepository_save_transaction(ts, transaction, enforce) ==
    IF enforce /\ IsSome(TransactionRepository_get_transaction_by_hash_and_network(
                            ts, transaction.hash, transaction.network))
    THEN [ok |-> FALSE, store |-> ts]
    ELSE [ok |-> TRUE, store |-> Append(ts, [transaction EXCEPT !.id = Len(ts) + 1])]

\* SecurityProvider.encrypt_bytes: an opaque blob, never the key itself.
encrypt_bytes(key) == <<"enc", key>>

\* SecurityProvider.decrypt_bytes: the bytes that were encrypted.
decrypt_bytes(blob) == blob[2]

\* bytes.decode('utf-8'), errors='strict': the str whose code points the
\* bytes encode, or None for the UnicodeDecodeError of bytes that are not
\* well-formed UTF-8 (a stray or missing continuation byte, an overlong or
\* surrogate encoding, a lead byte that never occurs).
Continuation(b, j) == j <= Len(b) /\ b[j] \in 128..191

utf8_width(c) ==
    CASE c \in 0..127   -> 1
      [] c \in 194..223 -> 2
      [] c \in 224..239 -> 3
      [] c \in 240..244 -> 4
      [] OTHER          -> 0

utf8_valid(b, i) ==
    LET c == b[i]
    IN  CASE utf8_width(c) = 1 -> TRUE
          [] utf8_width(c) = 2 -> Continuation(b, i + 1)
          [] utf8_width(c) = 3 ->
                 /\ Continuation(b, i + 1) /\ Continuation(b, i + 2)
                 /\ (c = 224 => b[i + 1] >= 160)
                 /\ (c = 237 => b[i + 1] <= 159)
          [] utf8_width(c) = 4 ->
                 /\ Continuation(b, i + 1) /\ Continuation(b, i + 2)
                 /\ Continuation(b, i + 3)
                 /\ (c = 240 => b[i + 1] >= 144)
                 /\ (c = 244 => b[i + 1] <= 143)
          [] OTHER -> FALSE

utf8_point(b, i) ==
    LET c == b[i]
    IN  CASE utf8_width(c) = 1 -> c
          [] utf8_width(c) = 2 -> (c - 192) * 64 + (b[i + 1] - 128)
          [] utf8_width(c) = 3 ->
                 (c - 224) * 4096 + (b[i + 1] - 128) * 64 + (b[i + 2] - 128)
          [] utf8_width(c) = 4 ->
                 (c - 240) * 262144 + (b[i + 1] - 128) * 4096
                     + (b[i + 2] - 128) * 64 + (b[i + 3] - 128)

RECURSIVE utf8_points(_, _)
utf8_points(b, i) ==
    IF i > Len(b) THEN [ok |-> TRUE, points |-> <<>>]
    ELSE IF ~utf8_valid(b, i) THEN [ok |-> FALSE, points |-> <<>>]
    ELSE LET rest == utf8_points(b, i + utf8_width(b[i]))
         IN  [ok |-> rest.ok,
              points |-> IF rest.ok THEN <<utf8_point(b, i)>> \o rest.points
                         ELSE <<>>]

str(points) == <<"str", points>>

decode(bytes) ==
    LET r == utf8_points(bytes, 1)
    IN  IF r.ok THEN Some(str(r.points)) ELSE None

\* ExchangeRateProvider.get_exchange_rate(): an ExchangeRate, or None.
ExchangeRate(reverted_rate) == [reverted_rate |-> reverted_rate]

\* NetworkClient.generate_wallet(): WalletCredentials(address, private_key).
WalletCredentials(key) == [address |-> <<"addr", key>>, private_key |-> key]

----------------------------------------------------------------------------
\* decimal.Decimal: sign, coefficient and exponent; the coefficient is a
\* sequence of decimal digits, most significant first, as wide as it needs
\* to be.  The value is (-1)^sign * coefficient * 10^exp.

Decimal(sign, digits, exp) == [sign |-> sign, digits |-> digits, exp |-> exp]

\* The precision of the arithmetic context in force: the service never sets
\* one, so `*` rounds to the 28 significant digits of the default context,
\* ties to even (ROUND_HALF_EVEN).
DecimalPrec == 28

Reverse(s) == [k \in 1..Len(s) |-> s[Len(s) + 1 - k]]

IsZeroDigits(s) == \A k \in 1..Len(s) : s[k] = 0

FirstNonZero(s) ==
    IF IsZeroDigits(s) THEN Len(s)
    ELSE CHOOSE k \in 1..Len(s) : s[k] # 0 /\ \A j \in 1..(k - 1) : s[j] = 0

StripLeadingZeros(s) == SubSeq(s, FirstNonZero(s), Len(s))

\* Integer arithmetic on digit sequences, least significant digit first:
\* the k-th column of the long multiplication of x by y, up to row i.
RECURSIVE ColumnSum(_, _, _, _)
ColumnSum(x, y, k, i) ==
    IF i = 0 THEN 0
    ELSE (IF k + 1 - i \in 1..Len(y) THEN x[i] * y[k + 1 - i] ELSE 0)
         + ColumnSum(x, y, k, i - 1)

\* The digits of the number whose columns (from the k-th on) are cols.
RECURSIVE CarryLE(_, _, _)
CarryLE(cols, k, carry) ==
    IF k > Len(cols)
    THEN IF carry = 0 THEN <<>>
         ELSE <<carry % 10>> \o CarryLE(cols, k, carry \div 10)
    ELSE LET t == cols[k] + carry
         IN  <<t % 10>> \o CarryLE(cols, k + 1, t \div 10)

MulLE(x, y) ==
    CarryLE([k \in 1..(Len(x) + Len(y) - 1) |-> ColumnSum(x, y, k, Len(x))], 1, 0)

\* int(a) * int(b) and int(a) + 1 on coefficients.
IntMul(a, b) == StripLeadingZeros(Reverse(MulLE(Reverse(a), Reverse(b))))
IntSucc(a) == Reverse(CarryLE([k \in 1..Len(a) |-> Reverse(a)[k]], 1, 1))

\* Decimal._fix: a coefficient longer than the precision is rounded to it,
\* ties to even, and the exponent raised by the number of digits dropped.
Decimal_fix(d) ==
    LET n == Len(d.digits)
    IN  IF n <= DecimalPrec THEN d
        ELSE LET kept == SubSeq(d.digits, 1, DecimalPrec)
                 first == d.digits[DecimalPrec + 1]
                 rest == SubSeq(d.digits, DecimalPrec + 2, n)
                 up == \/ first > 5
                       \/ first = 5 /\ ~IsZeroDigits(rest)
                       \/ first = 5 /\ IsZeroDigits(rest)
                                    /\ kept[DecimalPrec] % 2 = 1
                 coeff == IF up THEN IntSucc(kept) ELSE kept
                 exp == d.exp + (n - DecimalPrec)
             IN  IF Len(coeff) > DecimalPrec
                 THEN Decimal(d.sign, SubSeq(coeff, 1, DecimalPrec), exp + 1)
                 ELSE Decimal(d.sign, coeff, exp)

\* Decimal.__mul__: the signs combine, the exponents add, the coefficients
\* multiply, and the result is fixed to the context.
Decimal_mul(a, b) ==
    Decimal_fix(Decimal((a.sign + b.sign) % 2, IntMul(a.digits, b.digits),
                        a.exp + b.exp))

----------------------------------------------------------------------------
\* A frame: the arguments, local variables and position of one service call.
\* exit is the source line at which the call returned or raised.
\* calls lists the calls made to the collaborators other than the stores, in
\* order, and handed is the private_key argument of the transfer_amount call;
\* they stay with the caller's view of the finished call.
\* Invoice fields that no step reads (currencies, created_at, updated_at, and
\* the amount of a crypto-denominated invoice) are left out of the records.

Frame(op, pc, user_id, network, expires_at, invoice_id) ==
    [op |-> op, pc |-> pc,
     user_id |-> user_id, network |-> network, expires_at |-> expires_at,
     invoice_id |-> invoice_id,
     invoice |-> None, current_time |-> 0, wallet |-> None,
     wallet_credentials |-> None, private_key_encrypted |-> None,
     transaction |-> None, result |-> None, error |-> "", exit |-> "",
     calls |-> <<>>, handed |-> None,
     fiat_amount |-> None, crypto_amount |-> None, private_key |-> None]

IdleFrame == Frame("idle", "idle", 0, "", None, 0)

Step_(f, w) == [f |-> f, w |-> w]
Goto(f, pc) == [f EXCEPT !.pc = pc]

\* The end of a call: its local variables are gone, the caller holds the
\* arguments it passed and the value returned or the exception raised.
Done(f) ==
    [Frame(f.op, "done", f.user_id, f.network, f.expires_at, f.invoice_id)
        EXCEPT !.calls = f.calls, !.handed = f.handed]
Return(f, value, exit) == [Done(f) EXCEPT !.result = Some(value), !.exit = exit]
Raise(f, error, exit) == [Done(f) EXCEPT !.error = error, !.exit = exit]

\* A call to a collaborator, recorded in the frame.
Called(f, name) == [f EXCEPT !.calls = Append(@, name)]

\* The environment makes at most one collaborator call of a service call
\* fail (e.fail names it); the exception is not caught by the service.
Fails(e, name) == e.fail = name

IsExpired_unset_counts_as_zero(invoice, current_time) ==
    current_time > (IF IsSome(invoice.expires_at) THEN Get(invoice.expires_at) ELSE 0)

\* `invoice.expires_at and current_time > invoice.expires_at`: Python
\* truthiness, so an expires_at of None or of 0 never expires.
IsExpired(invoice, current_time) ==
    /\ IsSome(invoice.expires_at)
    /\ Get(invoice.expires_at) # 0
    /\ current_time > Get(invoice.expires_at)

----------------------------------------------------------------------------
\* get_wallet_for_user(user_id, network)

\* The wallet goes back to the caller: the service's client, or the method
\* that called get_wallet_for_user (lines 172, 223, 368).
get_wallet_return(f, wallet, exit) ==
    IF f.op = "get_wallet_for_user" THEN Return(f, wallet, exit)
    ELSE [f EXCEPT !.wallet = Some(wallet),
                   !.pc = CASE f.op = "create_crypto_invoice" -> "create_crypto_save"
                            [] f.op = "create_fiat_invoice" -> "create_fiat_save"
                            [] f.op = "transfer_from_wallet" -> "transfer_decrypt"]

get_wallet_lookup_never_found(f, w, e) ==
    Step_(Goto(f, "get_wallet_generate"), w)

get_wallet_lookup_first_wallet_only(f, w, e) ==
    LET existing_wallet ==
            IF /\ w.wallets # <<>>
               /\ w.wallets[1].user_id = f.user_id
               /\ w.wallets[1].network = f.network
            THEN Some(w.wallets[1]) ELSE None
    IN  IF IsSome(existing_wallet)
        THEN Step_(get_wallet_return(f, Get(existing_wallet), "L111"), w)
        ELSE Step_(Goto(f, "get_wallet_generate"), w)

\* Step 1: try to get from repository (if success, it is final).
get_wallet_lookup(f, w, e) ==
    LET existing_wallet ==
            WalletRepository_get_wallet_for_user(w.wallets, f.user_id, f.network)
    IN  IF IsSome(existing_wallet)
        THEN Step_(get_wallet_return(f, Get(existing_wallet), "L111"), w)
        ELSE Step_(Goto(f, "get_wallet_generate"), w)

\* Step 2: generate wallet with help of NetworkClient.
get_wallet_generate(f, w, e) ==
    LET g == Called(f, "generate_wallet")
    IN  IF Fails(e, "generate_wallet")
        THEN Step_(Raise(g, "CollaboratorFailure", "L114"), w)
        ELSE Step_([g EXCEPT !.wallet_credentials = Some(WalletCredentials(e.key)),
                             !.pc = "get_wallet_encrypt"], w)

\* Step 3: encrypt private_key with SecurityProvider.
get_wallet_encrypt(f, w, e) ==
    LET g == Called(f, "encrypt_bytes")
    IN  IF Fails(e, "encrypt_bytes")
        THEN Step_(Raise(g, "CollaboratorFailure", "L117"), w)
        ELSE Step_([g EXCEPT !.private_key_encrypted =
                                 Some(encrypt_bytes(Get(f.wallet_credentials).private_key)),
                             !.pc = "get_wallet_save"], w)

get_wallet_save_stores_before_failing(f, w, e) ==
    LET wallet == [id |-> UnsetId, user_id |-> f.user_id, network |-> f.network,
                   address |-> Get(f.wallet_credentials).address,
                   private_key_encrypted |-> Get(f.private_key_encrypted)]
        r == WalletRepository_save_wallet(w.wallets, wallet, e.unique)
    IN  IF Fails(e, "save_wallet")
        THEN Step_(Raise(f, "CollaboratorFailure", "L130"),
                   [w EXCEPT !.wallets = r.store])
        ELSE IF r.ok
        THEN Step_(get_wallet_return(f, Get(r.value), "L130"),
                   [w EXCEPT !.wallets = r.store])
        ELSE Step_(Raise(f, "UniqueViolation", "L130"), w)

\* Step 4: save it to repository; a failed or rejected save propagates as an
\* exception, and a failed save has stored nothing.
get_wallet_save(f, w, e) ==
    LET wallet == [id |-> UnsetId, user_id |-> f.user_id, network |-> f.network,
                   address |-> Get(f.wallet_credentials).address,
                   private_key_encrypted |-> Get(f.private_key_encrypted)]
        r == WalletRepository_save_wallet(w.wallets, wallet, e.unique)
    IN  IF Fails(e, "save_wallet")
        THEN Step_(Raise(f, "CollaboratorFailure", "L130"), w)
        ELSE IF r.ok
        THEN Step_(get_wallet_return(f, Get(r.value), "L130"),
                   [w EXCEPT !.wallets = r.store])
        ELSE Step_(Raise(f, "UniqueViolation", "L130"), w)

----------------------------------------------------------------------------
\* create_crypto_invoice(user_id, network, ..., expires_at), after its
\* get_wallet_for_user call: create and save the invoice.
create_crypto_save_expired_if_past(f, w, e) ==
    LET invoice == [id |-> UnsetId, user_id |-> f.user_id, network |-> f.network,
                    expires_at |-> f.expires_at, status |-> PENDING]
        stored == IF IsExpired(invoice, e.now)
                  THEN [invoice EXCEPT !.status = EXPIRED] ELSE invoice
        r == InvoiceRepository_save_invoice(w.invoices, stored)
    IN  Step_(Return(f, r.value, "L240"), [w EXCEPT !.invoices = r.store])

create_crypto_save(f, w, e) ==
    LET invoice == [id |-> UnsetId, user_id |-> f.user_id, network |-> f.network,
                    expires_at |-> f.expires_at, status |-> PENDING]
        r == InvoiceRepository_save_invoice(w.invoices, invoice)
    IN  Step_(Return(f, r.value, "L240"), [w EXCEPT !.invoices = r.store])

----------------------------------------------------------------------------
\* create_fiat_invoice(user_id, network, fiat_amount, fiat_currency, expires_at)

fiat_get_rate_defaults_to_zero(f, w, e) ==
    LET g == Called(Called(f, "get_network_name"), "get_exchange_rate")
        exchange_rate_data == e.rate
    IN  Step_([g EXCEPT !.crypto_amount =
                            Some(IF IsSome(exchange_rate_data)
                                 THEN Decimal_mul(Get(g.fiat_amount),
                                                  Get(exchange_rate_data).reverted_rate)
                                 ELSE Decimal(0, <<0>>, 0)),
                        !.pc = "get_wallet_lookup"], w)

\* Step 1: get exchange rate (for the fiat currency and the network client's
\* network name), and calculate crypto amount from fiat amount.
fiat_get_rate(f, w, e) ==
    LET g == Called(Called(f, "get_network_name"), "get_exchange_rate")
        exchange_rate_data == e.rate
    IN  IF ~IsSome(exchange_rate_data)
        THEN Step_(Raise(Called(g, "get_network_name"), "RateUnavailable", "L166"), w)
        ELSE Step_([g EXCEPT !.crypto_amount =
                                 Some(Decimal_mul(Get(g.fiat_amount),
                                                  Get(exchange_rate_data).reverted_rate)),
                             !.pc = "get_wallet_lookup"], w)

\* Step 3: create and save invoice (step 2 is the get_wallet_for_user call).
create_fiat_save(f, w, e) ==
    LET invoice == [id |-> UnsetId, user_id |-> f.user_id, network |-> f.network,
                    expires_at |-> f.expires_at, status |-> PENDING,
                    fiat_amount |-> Get(f.fiat_amount),
                    crypto_amount |-> Get(f.crypto_amount)]
        r == InvoiceRepository_save_invoice(w.invoices, invoice)
    IN  Step_(Return(Called(f, "get_network_name"), r.value, "L190"),
              [w EXCEPT !.invoices = r.store])

----------------------------------------------------------------------------
\* transfer_from_wallet(user_id, network, to_address, amount), after its
\* get_wallet_for_user call.  to_address and amount go to the network client
\* as they came and are left out.

\* Decrypt private key, and decode it to a string.
transfer_decrypt(f, w, e) ==
    LET g == Called(f, "decrypt_bytes")
        private_key_bytes == decrypt_bytes(Get(g.wallet).private_key_encrypted)
        private_key == decode(private_key_bytes)
    IN  IF Fails(e, "decrypt_bytes")
        THEN Step_(Raise(g, "DecryptionFailed", "L371"), w)
        ELSE IF ~IsSome(private_key)
        THEN Step_(Raise(g, "UnicodeDecodeError", "L372"), w)
        ELSE Step_([g EXCEPT !.private_key = private_key,
                             !.pc = "transfer_send"], w)

transfer_send_retries_once(f, w, e) ==
    LET g == [Called(f, "transfer_amount") EXCEPT !.handed = f.private_key]
    IN  IF Fails(e, "transfer_amount")
        THEN Step_(Return(Called(g, "transfer_amount"), e.hash, "L375"), w)
        ELSE Step_(Return(g, e.hash, "L375"), w)

\* Perform transfer: the network client's answer is returned.
transfer_send(f, w, e) ==
    LET g == [Called(f, "transfer_amount") EXCEPT !.handed = f.private_key]
    IN  IF Fails(e, "transfer_amount")
        THEN Step_(Raise(g, "TransferFailed", "L375"), w)
        ELSE Step_(Return(g, e.hash, "L375"), w)

----------------------------------------------------------------------------
\* check_invoice_status(invoice_id)

check_get_invoice_no_status_test(f, w, e) ==
    LET invoice == InvoiceRepository_get_invoice_by_id(w.invoices, f.invoice_id)
    IN  IF ~IsSome(invoice) THEN Step_(Raise(f, "InvoiceNotFound", "L266"), w)
        ELSE Step_([f EXCEPT !.invoice = invoice, !.pc = "check_read_time"], w)

check_get_invoice_missing_returns_none(f, w, e) ==
    LET invoice == InvoiceRepository_get_invoice_by_id(w.invoices, f.invoice_id)
    IN  IF ~IsSome(invoice) THEN Step_([Done(f) EXCEPT !.exit = "L266"], w)
        ELSE IF Get(invoice).status # PENDING
             THEN Step_(Return(f, Get(invoice), "L270"), w)
        ELSE Step_([f EXCEPT !.invoice = invoice, !.pc = "check_read_time"], w)

\* Step 1: get invoice from repository.  Step 2: check status is PENDING.
check_get_invoice(f, w, e) ==
    LET invoice == InvoiceRepository_get_invoice_by_id(w.invoices, f.invoice_id)
    IN  IF ~IsSome(invoice) THEN Step_(Raise(f, "InvoiceNotFound", "L266"), w)
        ELSE IF Get(invoice).status # PENDING
             THEN Step_(Return(f, Get(invoice), "L270"), w)
        ELSE Step_([f EXCEPT !.invoice = invoice, !.pc = "check_read_time"], w)

\* invoice.status = EXPIRED, then on to update_invoice_status(.., EXPIRED);
\* exit is the line of that return statement.
check_expire(f, exit) ==
    [f EXCEPT !.invoice[1].status = EXPIRED, !.pc = "check_update_expired",
              !.exit = exit]

\* Check if invoice has expired: current_time = int(time.time()).
check_read_time(f, w, e) ==
    LET g == [f EXCEPT !.current_time = e.now]
    IN  IF IsExpired(Get(g.invoice), g.current_time)
        THEN Step_(check_expire(g, "L276"), w)
        ELSE Step_(Goto(g, "check_get_wallet"), w)

\* return self.invoice_repository.update_invoice_status(invoice_id, EXPIRED)
check_update_expired(f, w, e) ==
    LET r == InvoiceRepository_update_invoice_status(w.invoices, f.invoice_id, EXPIRED)
    IN  IF Fails(e, "update_invoice_status")
        THEN Step_(Raise(f, "CollaboratorFailure", f.exit), w)
        ELSE Step_(Return(f, r.value, f.exit), [w EXCEPT !.invoices = r.store])

check_get_wallet_expires_orphan(f, w, e) ==
    LET wallet == WalletRepository_get_wallet_for_user(
                      w.wallets, Get(f.invoice).user_id, Get(f.invoice).network)
        r == InvoiceRepository_update_invoice_status(w.invoices, f.invoice_id, EXPIRED)
    IN  IF ~IsSome(wallet)
        THEN Step_(Raise(f, "WalletNotFound", "L282"), [w EXCEPT !.invoices = r.store])
        ELSE Step_([f EXCEPT !.wallet = wallet, !.pc = "check_search"], w)

\* Step 3: the wallet whose transactions the blockchain reader searches.
check_get_wallet(f, w, e) ==
    LET wallet == WalletRepository_get_wallet_for_user(
                      w.wallets, Get(f.invoice).user_id, Get(f.invoice).network)
    IN  IF ~IsSome(wallet) THEN Step_(Raise(f, "WalletNotFound", "L282"), w)
        ELSE Step_([f EXCEPT !.wallet = wallet, !.pc = "check_search"], w)

\* Step 3: get transaction by blockchain reader; if we can't get it, check
\* expired (against the current_time read before the query) and it is final.
check_search(f, w, e) ==
    LET transaction == e.tx
        g == Called(f, "search_transactions_for_wallet")
    IN  IF ~IsSome(transaction)
        THEN IF IsExpired(Get(g.invoice), g.current_time)
             THEN Step_(check_expire(g, "L290"), w)
             ELSE Step_(Return(g, Get(g.invoice), "L291"), w)
        ELSE Step_([g EXCEPT !.transaction = transaction, !.pc = "check_dedup"], w)

check_dedup_no_lookup(f, w, e) ==
    Step_(Goto(f, "check_save_transaction"), w)

check_dedup_own_invoice_only(f, w, e) ==
    LET existing_transaction ==
            TransactionRepository_get_transaction_by_hash_and_network(
                w.transactions, Get(f.transaction).hash, Get(f.transaction).network)
    IN  IF IsSome(existing_transaction)
           /\ Get(existing_transaction).invoice_id = f.invoice_id
        THEN IF IsExpired(Get(f.invoice), f.current_time)
             THEN Step_(check_expire(f, "L301"), w)
             ELSE Step_(Return(f, Get(f.invoice), "L302"), w)
        ELSE Step_(Goto(f, "check_save_transaction"), w)

\* Step 4: check if such transaction already in repository; if it was already
\* saved, check expired and it is final step.
check_dedup(f, w, e) ==
    LET existing_transaction ==
            TransactionRepository_get_transaction_by_hash_and_network(
                w.transactions, Get(f.transaction).hash, Get(f.transaction).network)
    IN  IF IsSome(existing_transaction)
        THEN IF IsExpired(Get(f.invoice), f.current_time)
             THEN Step_(check_expire(f, "L301"), w)
             ELSE Step_(Return(f, Get(f.invoice), "L302"), w)
        ELSE Step_(Goto(f, "check_save_transaction"), w)

check_save_transaction_swallows_conflict(f, w, e) ==
    LET r == TransactionRepository_save_transaction(
                 w.transactions, Get(f.transaction), e.unique)
    IN  Step_(Goto(f, "check_update_paid"), [w EXCEPT !.transactions = r.store])

\* Step 5: save transaction to repository; a rejected save propagates.
check_save_transaction(f, w, e) ==
    LET r == TransactionRepository_save_transaction(
                 w.transactions, Get(f.transaction), e.unique)
    IN  IF r.ok
        THEN Step_(Goto(f, "check_update_paid"), [w EXCEPT !.transactions = r.store])
        ELSE Step_(Raise(f, "UniqueViolation", "L305"), w)

\* Step 6: update invoice status; the local invoice is returned.  paidLog
\* records the write of PAID and the transaction it was made for.
check_update_paid(f, w, e) ==
    LET r == InvoiceRepository_update_invoice_status(w.invoices, f.invoice_id, PAID)
        g == [f EXCEPT !.invoice[1].status = PAID]
    IN  IF Fails(e, "update_invoice_status")
        THEN Step_(Raise(f, "CollaboratorFailure", "L309"), w)
        ELSE
        Step_(Return(g, Get(g.invoice), "L310"),
              [w EXCEPT !.invoices = r.store,
                        !.paidLog = Append(@, [invoice_id |-> f.invoice_id,
                                               hash |-> Get(f.transaction).hash,
                                               network |-> Get(f.transaction).network])])

----------------------------------------------------------------------------
\* One step of a call, and a call run to completion.

Step(f, w, e) ==
    CASE f.pc = "get_wallet_lookup"      -> get_wallet_lookup(f, w, e)
      [] f.pc = "get_wallet_generate"    -> get_wallet_generate(f, w, e)
      [] f.pc = "get_wallet_encrypt"     -> get_wallet_encrypt(f, w, e)
      [] f.pc = "get_wallet_save"        -> get_wallet_save(f, w, e)
      [] f.pc = "create_crypto_save"     -> create_crypto_save(f, w, e)
      [] f.pc = "fiat_get_rate"          -> fiat_get_rate(f, w, e)
      [] f.pc = "create_fiat_save"       -> create_fiat_save(f, w, e)
      [] f.pc = "transfer_decrypt"       -> transfer_decrypt(f, w, e)
      [] f.pc = "transfer_send"          -> transfer_send(f, w, e)
      [] f.pc = "check_get_invoice"      -> check_get_invoice(f, w, e)
      [] f.pc = "check_read_time"        -> check_read_time(f, w, e)
      [] f.pc = "check_update_expired"   -> check_update_expired(f, w, e)
      [] f.pc = "check_get_wallet"       -> check_get_wallet(f, w, e)
      [] f.pc = "check_search"           -> check_search(f, w, e)
      [] f.pc = "check_dedup"            -> check_dedup(f, w, e)
      [] f.pc = "check_save_transaction" -> check_save_transaction(f, w, e)
      [] f.pc = "check_update_paid"      -> check_update_paid(f, w, e)

RECURSIVE Run(_, _, _)
Run(f, w, e) ==
    IF f.pc = "done" THEN Step_(f, w)
    ELSE CHOOSE out \in {Run(r.f, r.w, e) : r \in {Step(f, w, e)}} : TRUE

\* The calls a client can make.
get_wallet_for_user(user_id, network) ==
    Frame("get_wallet_for_user", "get_wallet_lookup", user_id, network, None, 0)
create_crypto_invoice(user_id, network, expires_at) ==
    Frame("create_crypto_invoice", "get_wallet_lookup", user_id, network, expires_at, 0)
check_invoice_status(invoice_id) ==
    Frame("check_invoice_status", "check_get_invoice", 0, "", None, invoice_id)
create_fiat_invoice(user_id, network, fiat_amount, expires_at) ==
    [Frame("create_fiat_invoice", "fiat_get_rate", user_id, network, expires_at, 0)
        EXCEPT !.fiat_amount = Some(fiat_amount)]
transfer_from_wallet(user_id, network) ==
    Frame("transfer_from_wallet", "get_wallet_lookup", user_id, network, None, 0)

----------------------------------------------------------------------------
\* State, inputs and actions.

World == [wallets |-> wallets, invoices |-> invoices,
          transactions |-> transactions, paidLog |-> paidLog]

\* What the collaborators answer during one call: the reader's transaction,
\* the generated key, the exchange rate, the hash of the transfer, and the
\* collaborator call that fails, if any.
EnvWith(tx, key, rate, hash, fail) ==
    [now |-> now, unique |-> unique, tx |-> tx, key |-> key,
     rate |-> rate, hash |-> hash, fail |-> fail]

Env(tx, key) == EnvWith(tx, key, None, "", "")

ExpiryInputs == {None} \cup {Some(t) : t \in 0..MaxExpiry}
InvoiceIds == 1..MaxInvoices

\* What search_transactions_for_wallet(wallet, invoice) may answer for the
\* invoice being checked: nothing, or one Transaction.
ReaderAnswers(invoice_id) ==
    {None} \cup {Some([id |-> UnsetId, invoice_id |-> invoice_id,
                       hash |-> h, network |-> n]) :
                    h \in Hashes, n \in InvoiceNetworks}

\* What a completed call leaves with its caller.
Outcome(f) ==
    [op |-> f.op, result |-> f.result, error |-> f.error, exit |-> f.exit,
     calls |-> f.calls, handed |-> f.handed]

NoCall == Outcome(IdleFrame)

Init ==
    /\ wallets = <<>>
    /\ invoices = <<>>
    /\ transactions = <<>>
    /\ paidLog = <<>>
    /\ now = 0
    /\ unique = FALSE
    /\ last = NoCall
    /\ procs = [p \in Procs |-> IdleFrame]

StoreWorld(w) ==
    /\ wallets' = w.wallets
    /\ invoices' = w.invoices
    /\ transactions' = w.transactions
    /\ paidLog' = w.paidLog

\* A call by a sequential client: it runs to completion.
Call(f, e) ==
    LET r == Run(f, World, e)
    IN  /\ StoreWorld(r.w)
        /\ last' = Outcome(r.f)
        /\ UNCHANGED <<now, unique, procs>>

GetWalletForUser(user_id, network, key) ==
    /\ Len(wallets) < MaxWallets
    /\ Call(get_wallet_for_user(user_id, network), Env(None, key))

CreateCryptoInvoice(user_id, network, expires_at, key) ==
    /\ Len(invoices) < MaxInvoices
    /\ Len(wallets) < MaxWallets
    /\ Call(create_crypto_invoice(user_id, network, expires_at), Env(None, key))

CheckInvoiceStatus(invoice_id, tx) ==
    /\ Len(transactions) < MaxTransactions
    /\ Call(check_invoice_status(invoice_id), Env(tx, K1))

Tick ==
    /\ now < MaxTime
    /\ now' = now + 1
    /\ UNCHANGED <<wallets, invoices, transactions, paidLog, unique, last, procs>>

Next ==
    \/ \E u \in InvoiceUsers, n \in InvoiceNetworks, k \in InvoiceKeys :
           GetWalletForUser(u, n, k)
    \/ \E u \in InvoiceUsers, n \in InvoiceNetworks, x \in ExpiryInputs,
          k \in InvoiceKeys :
           CreateCryptoInvoice(u, n, x, k)
    \/ \E i \in InvoiceIds : \E tx \in ReaderAnswers(i) : CheckInvoiceStatus(i, tx)
    \/ Tick

Spec == Init /\ [][Next]_vars

\* The same calls under a poller and a running clock: the clock keeps
\* advancing (up to MaxTime, which is past every expiration), and every
\* invoice keeps being checked, whatever the blockchain reader answers; no
\* payment is bound to arrive.
Poll(invoice_id) ==
    \E tx \in ReaderAnswers(invoice_id) : CheckInvoiceStatus(invoice_id, tx)

SpecPoller ==
    /\ Init
    /\ [][Next]_vars
    /\ WF_vars(Tick)
    /\ \A i \in InvoiceIds : WF_vars(Poll(i))

\* Wallet provisioning alone, for every (user_id, network).
NextWallets ==
    \E u \in Users, n \in Networks, k \in Keys : GetWalletForUser(u, n, k)

SpecWallets == Init /\ [][NextWallets]_vars

\* Fiat-denominated invoices: the amounts asked for and the rates the
\* provider answers with (100 at 0.0005; 19.99 at 1/65000 as the 28-digit
\* quotient 0.00001538461538461538461538461538), or no rate.
FiatAmounts == {Decimal(0, <<1, 0, 0>>, 0), Decimal(0, <<1, 9, 9, 9>>, -2)}

RevertedRates ==
    {Decimal(0, <<5>>, -4),
     Decimal(0, <<1,5,3,8,4,6,1,5,3,8,4,6,1,5,3,8,4,6,1,5,3,8,4,6,1,5,3,8>>, -32)}

RateAnswers == {None} \cup {Some(ExchangeRate(r)) : r \in RevertedRates}

CreateFiatInvoice(user_id, network, fiat_amount, expires_at, rate, key) ==
    /\ Len(invoices) < MaxInvoices
    /\ Len(wallets) < MaxWallets
    /\ Call(create_fiat_invoice(user_id, network, fiat_amount, expires_at),
            EnvWith(None, key, rate, "", ""))

NextFiat ==
    \E u \in InvoiceUsers, n \in InvoiceNetworks, a \in FiatAmounts,
       x \in ExpiryInputs, r \in RateAnswers, k \in InvoiceKeys :
        CreateFiatInvoice(u, n, a, x, r, k)

SpecFiat == Init /\ [][NextFiat]_vars

\* Transfers out of a wallet: the network client answers with the hash of
\* the transfer, or the decryption or the transfer fails.
TransferFailures == {"", "decrypt_bytes", "transfer_amount"}

TransferFromWallet(user_id, network, key, hash, fail) ==
    /\ Len(wallets) < MaxWallets
    /\ Call(transfer_from_wallet(user_id, network), EnvWith(None, key, None, hash, fail))

NextTransfer ==
    \/ \E u \in Users, n \in Networks, k \in Keys : GetWalletForUser(u, n, k)
    \/ \E u \in Users, n \in Networks, k \in Keys, h \in InvoiceHashes,
          fail \in TransferFailures :
           TransferFromWallet(u, n, k, h, fail)

SpecTransfer == Init /\ [][NextTransfer]_vars

\* Transfers over wallets of any key material: generate_wallet may answer
\* with the empty key, with b"k1", with the UTF-8 bytes of the text "\u00e9"
\* and of "\u20ac", or with the byte 0xFF.
RawKeys == {<<>>, K1, <<195, 169>>, <<226, 130, 172>>, <<255>>}

NextKeys ==
    \/ \E u \in Users, n \in InvoiceNetworks, k \in RawKeys : GetWalletForUser(u, n, k)
    \/ \E u \in Users, n \in InvoiceNetworks, k \in RawKeys, h \in Hashes,
          fail \in TransferFailures :
           TransferFromWallet(u, n, k, h, fail)

SpecKeys == Init /\ [][NextKeys]_vars

\* All five operations, called in any order by a sequential client: wallets
\* for two users, invoices for the first of them; a fiat invoice is asked for
\* one amount, without expiration, and the provider has one rate or none; the
\* chain has one transaction.
InvoiceFiatAmounts == {Decimal(0, <<1, 0, 0>>, 0)}
InvoiceRateAnswers == {None, Some(ExchangeRate(Decimal(0, <<5>>, -4)))}
InvoiceReaderAnswers(invoice_id) ==
    {tx \in ReaderAnswers(invoice_id) : IsSome(tx) => Get(tx).hash \in InvoiceHashes}

NextAll ==
    \/ \E u \in Users, n \in InvoiceNetworks, k \in InvoiceKeys :
           GetWalletForUser(u, n, k)
    \/ \E u \in InvoiceUsers, n \in InvoiceNetworks, x \in ExpiryInputs,
          k \in InvoiceKeys :
           CreateCryptoInvoice(u, n, x, k)
    \/ \E u \in InvoiceUsers, n \in InvoiceNetworks, a \in InvoiceFiatAmounts,
          r \in InvoiceRateAnswers, k \in InvoiceKeys :
           CreateFiatInvoice(u, n, a, None, r, k)
    \/ \E i \in InvoiceIds : \E tx \in InvoiceReaderAnswers(i) :
           CheckInvoiceStatus(i, tx)
    \/ \E u \in Users, n \in InvoiceNetworks, k \in InvoiceKeys,
          h \in InvoiceHashes, fail \in TransferFailures :
           TransferFromWallet(u, n, k, h, fail)
    \/ Tick

SpecAll == Init /\ [][NextAll]_vars

\* Reconciliation over any reader: the Transaction it answers with is its
\* own object, whose invoice_id it may have left unset or set to any invoice.
ReaderAnswersAnyOwner ==
    {None} \cup {Some([id |-> UnsetId, invoice_id |-> o, hash |-> h, network |-> n]) :
                    o \in {UnsetId} \cup InvoiceIds, h \in Hashes, n \in InvoiceNetworks}

NextReader ==
    \/ \E u \in InvoiceUsers, n \in InvoiceNetworks, x \in ExpiryInputs,
          k \in InvoiceKeys :
           CreateCryptoInvoice(u, n, x, k)
    \/ \E i \in InvoiceIds : \E tx \in ReaderAnswersAnyOwner : CheckInvoiceStatus(i, tx)
    \/ Tick

SpecReader == Init /\ [][NextReader]_vars

\* Invoices and reconciliation over a store that may hold corrupted data: an
\* invoice put there without the service, for a user the service provisions
\* no wallet for.
OrphanUsers == Users \ InvoiceUsers

InitCorrupt ==
    /\ wallets = <<>>
    /\ \/ invoices = <<>>
       \/ \E u \in OrphanUsers, n \in InvoiceNetworks, x \in ExpiryInputs :
              invoices = <<[id |-> 1, user_id |-> u, network |-> n,
                            expires_at |-> x, status |-> PENDING]>>
    /\ transactions = <<>>
    /\ paidLog = <<>>
    /\ now = 0
    /\ unique = FALSE
    /\ last = NoCall
    /\ procs = [p \in Procs |-> IdleFrame]

NextCorrupt ==
    \/ \E u \in InvoiceUsers, n \in InvoiceNetworks, x \in ExpiryInputs,
          k \in InvoiceKeys :
           CreateCryptoInvoice(u, n, x, k)
    \/ \E u \in InvoiceUsers, n \in InvoiceNetworks, a \in InvoiceFiatAmounts,
          r \in InvoiceRateAnswers, k \in InvoiceKeys :
           CreateFiatInvoice(u, n, a, None, r, k)
    \/ \E i \in InvoiceIds : \E tx \in InvoiceReaderAnswers(i) :
           CheckInvoiceStatus(i, tx)
    \/ Tick

SpecCorrupt == InitCorrupt /\ [][NextCorrupt]_vars

\* Reconciliation when the invoice store may fail: a check_invoice_status
\* call whose update_invoice_status call raises.
CheckInvoiceStatusFailing(invoice_id, tx, fail) ==
    /\ Len(transactions) < MaxTransactions
    /\ Call(check_invoice_status(invoice_id), EnvWith(tx, K1, None, "", fail))

NextFaults ==
    \/ \E u \in InvoiceUsers, n \in InvoiceNetworks, x \in ExpiryInputs,
          k \in InvoiceKeys :
           CreateCryptoInvoice(u, n, x, k)
    \/ \E i \in InvoiceIds : \E tx \in ReaderAnswers(i) : CheckInvoiceStatus(i, tx)
    \/ \E i \in InvoiceIds : \E tx \in ReaderAnswers(i) :
           CheckInvoiceStatusFailing(i, tx, "update_invoice_status")
    \/ Tick

SpecFaults == Init /\ [][NextFaults]_vars

----------------------------------------------------------------------------
\* Concurrent callers: each process runs one call at a time, one step at a
\* time; the steps of different processes interleave.

\* Each process makes one call.
Running(p) == procs[p].pc \notin {"idle", "done"}

Start(p, f) ==
    /\ procs[p].pc = "idle"
    /\ procs' = [procs EXCEPT ![p] = f]
    /\ UNCHANGED <<wallets, invoices, transactions, paidLog, now, unique, last>>

StartGetWallet(p, user_id, network) ==
    /\ Len(wallets) < MaxWallets
    /\ Start(p, get_wallet_for_user(user_id, network))

StartCheckInvoiceStatus(p, invoice_id) ==
    /\ Len(transactions) < MaxTransactions
    /\ Start(p, check_invoice_status(invoice_id))

StepWith(p, tx, key) ==
    LET r == Step(procs[p], World, Env(tx, key))
    IN  /\ StoreWorld(r.w)
        /\ procs' = [procs EXCEPT ![p] = r.f]
        /\ UNCHANGED <<now, unique, last>>

\* network_client.generate_wallet() answers with fresh credentials.
StepGenerate(p, key) ==
    /\ procs[p].pc = "get_wallet_generate"
    /\ StepWith(p, None, key)

\* blockchain_reader.search_transactions_for_wallet(wallet, invoice) answers.
StepSearch(p, tx) ==
    /\ procs[p].pc = "check_search"
    /\ StepWith(p, tx, K1)

\* Any other step: it takes no input from outside the stores and the clock.
StepProc(p) ==
    /\ Running(p)
    /\ procs[p].pc \notin {"get_wallet_generate", "check_search"}
    /\ StepWith(p, None, K1)

\* Concurrent check_invoice_status calls, under an advancing clock.
NextConc ==
    \/ \E p \in Procs, i \in InvoiceIds : StartCheckInvoiceStatus(p, i)
    \/ \E p \in Procs : \E tx \in ReaderAnswers(procs[p].invoice_id) : StepSearch(p, tx)
    \/ \E p \in Procs : StepProc(p)
    \/ Tick

\* Concurrent get_wallet_for_user calls.
NextConcWallets ==
    \/ \E p \in Procs, u \in Users, n \in Networks : StartGetWallet(p, u, n)
    \/ \E p \in Procs, k \in Keys : StepGenerate(p, k)
    \/ \E p \in Procs : StepProc(p)

\* The concurrent callers start from a state sequential create_crypto_invoice
\* calls at time 0 lead to: no invoice, or pending invoices of one user on
\* one network, with that user's wallet.
ProvisionedWallet ==
    [id |-> 1, user_id |-> 1, network |-> "btc",
     address |-> WalletCredentials(K1).address,
     private_key_encrypted |-> encrypt_bytes(K1)]

PendingInvoice(id, expires_at) ==
    [id |-> id, user_id |-> 1, network |-> "btc",
     expires_at |-> expires_at, status |-> PENDING]

InitConc ==
    /\ unique \in BOOLEAN
    /\ \E n \in 0..MaxInvoices : \E x \in [1..n -> ExpiryInputs] :
           invoices = [k \in 1..n |-> PendingInvoice(k, x[k])]
    /\ wallets = <<ProvisionedWallet>>
    /\ transactions = <<>>
    /\ paidLog = <<>>
    /\ now = 0
    /\ last = NoCall
    /\ procs = [p \in Procs |-> IdleFrame]

SpecConc == InitConc /\ [][NextConc]_vars

\* The concurrent provisioning calls start from the empty stores.
InitConcWallets ==
    /\ unique \in BOOLEAN
    /\ wallets = <<>>
    /\ invoices = <<>>
    /\ transactions = <<>>
    /\ paidLog = <<>>
    /\ now = 0
    /\ last = NoCall
    /\ procs = [p \in Procs |-> IdleFrame]

SpecConcWallets == InitConcWallets /\ [][NextConcWallets]_vars

\* Provisioning when a collaborator may fail: generate_wallet, encrypt_bytes
\* or save_wallet raises.  create_crypto_invoice calls (each begins with its
\* get_wallet_for_user call, line 223) run concurrently, one step at a time,
\* and beside them a client makes calls that run to completion.
ProvisioningFailures == {"generate_wallet", "encrypt_bytes", "save_wallet"}

\* The statement at which a call makes the collaborator call that fails.
FailurePoint(fail) ==
    CASE fail = "generate_wallet" -> "get_wallet_generate"
      [] fail = "encrypt_bytes"   -> "get_wallet_encrypt"
      [] fail = "save_wallet"     -> "get_wallet_save"

StartCreateCryptoInvoice(p, user_id, network, expires_at) ==
    /\ Len(invoices) < MaxInvoices
    /\ Len(wallets) < MaxWallets
    /\ Start(p, create_crypto_invoice(user_id, network, expires_at))

StepFailing(p, fail) ==
    /\ procs[p].pc = FailurePoint(fail)
    /\ LET r == Step(procs[p], World, EnvWith(None, K1, None, "", fail))
       IN  /\ StoreWorld(r.w)
           /\ procs' = [procs EXCEPT ![p] = r.f]
           /\ UNCHANGED <<now, unique, last>>

GetWalletForUserFailing(user_id, network, key, fail) ==
    /\ Len(wallets) < MaxWallets
    /\ Call(get_wallet_for_user(user_id, network), EnvWith(None, key, None, "", fail))

CreateCryptoInvoiceFailing(user_id, network, expires_at, key, fail) ==
    /\ Len(invoices) < MaxInvoices
    /\ Len(wallets) < MaxWallets
    /\ Call(create_crypto_invoice(user_id, network, expires_at),
            EnvWith(None, key, None, "", fail))

CreateFiatInvoiceFailing(user_id, network, fiat_amount, expires_at, rate, key, fail) ==
    /\ Len(invoices) < MaxInvoices
    /\ Len(wallets) < MaxWallets
    /\ Call(create_fiat_invoice(user_id, network, fiat_amount, expires_at),
            EnvWith(None, key, rate, "", fail))

ProvisioningRate == Some(ExchangeRate(Decimal(0, <<5>>, -4)))

NextProvisioning ==
    \/ \E p \in Procs, u \in InvoiceUsers, n \in InvoiceNetworks :
           StartCreateCryptoInvoice(p, u, n, None)
    \/ \E p \in Procs, k \in InvoiceKeys : StepGenerate(p, k)
    \/ \E p \in Procs : StepProc(p)
    \/ \E p \in Procs, fail \in ProvisioningFailures : StepFailing(p, fail)
    \/ \E u \in InvoiceUsers, n \in InvoiceNetworks, k \in InvoiceKeys,
          fail \in ProvisioningFailures :
           GetWalletForUserFailing(u, n, k, fail)
    \/ \E u \in InvoiceUsers, n \in InvoiceNetworks, k \in InvoiceKeys,
          fail \in ProvisioningFailures :
           CreateCryptoInvoiceFailing(u, n, None, k, fail)
    \/ \E u \in InvoiceUsers, n \in InvoiceNetworks, a \in InvoiceFiatAmounts,
          k \in InvoiceKeys, fail \in ProvisioningFailures :
           CreateFiatInvoiceFailing(u, n, a, None, ProvisioningRate, k, fail)

SpecProvisioning == InitConcWallets /\ [][NextProvisioning]_vars

----------------------------------------------------------------------------
\* The claims.

Exists(i) == i \in 1..Len(invoices)
Terminal(status) == status \in {PAID, EXPIRED}
SameChainTransaction(a, b) == a.hash = b.hash /\ a.network = b.network
Recorded(tx) == \E k \in 1..Len(transactions) : SameChainTransaction(transactions[k], tx)
WalletsOf(ws, user_id, network) ==
    {k \in 1..Len(ws) : ws[k].user_id = user_id /\ ws[k].network = network}

\* The expiration timestamp is set and lies in the past.
ExpirationPassed(invoice, t) ==
    IsSome(invoice.expires_at) /\ t > Get(invoice.expires_at)

\* C1: once a stored invoice is PAID or EXPIRED, a check_invoice_status call on
\* it (whatever the reader answers, whatever the clock) changes neither its
\* stored status nor the transaction store.
C1_TerminalStaysUnderChecks ==
    [][\A i \in InvoiceIds : \A tx \in ReaderAnswers(i) :
          (Exists(i) /\ Terminal(invoices[i].status) /\ CheckInvoiceStatus(i, tx))
              => (invoices' = invoices /\ transactions' = transactions)]_vars

\* A check of an invoice that was already PAID has returned it.
C1_Witness ==
    /\ last.op = "check_invoice_status"
    /\ last.exit = "L270"
    /\ Get(last.result).status = PAID

\* C2: under sequential calls at most one Transaction record exists per
\* (hash, network), no invoice goes PENDING -> PAID twice, and every such
\* transition has exactly one Transaction record.
C2_TransactionUnique ==
    /\ \A a, b \in 1..Len(transactions) :
           SameChainTransaction(transactions[a], transactions[b]) => a = b
    /\ \A a, b \in 1..Len(paidLog) :
           paidLog[a].invoice_id = paidLog[b].invoice_id => a = b
    /\ \A a \in 1..Len(paidLog) :
           Cardinality({k \in 1..Len(transactions) :
                           SameChainTransaction(transactions[k], paidLog[a])}) = 1

\* An invoice was paid by one check and then checked again: one PAID
\* transition, one record.
C2_Witness ==
    /\ last.op = "check_invoice_status"
    /\ last.exit = "L270"
    /\ Len(paidLog) = 1
    /\ Len(transactions) = 1
    /\ Get(last.result).id = paidLog[1].invoice_id
    /\ Get(last.result).status = PAID

\* C3: a check of a pending invoice for which the reader yields an already
\* recorded (hash, network) never sets it PAID and records nothing: it stays
\* PENDING, or becomes EXPIRED, and that only if its expiration has passed
\* (and always so when the passed expiration is not the timestamp 0).
C3_RecordedTransactionNeverPays ==
    [][\A i \in InvoiceIds : \A tx \in ReaderAnswers(i) \ {None} :
          (/\ Exists(i)
           /\ invoices[i].status = PENDING
           /\ Recorded(Get(tx))
           /\ CheckInvoiceStatus(i, tx))
              => (/\ invoices'[i].status \in {PENDING, EXPIRED}
                  /\ transactions' = transactions
                  /\ paidLog' = paidLog
                  /\ (invoices'[i].status = EXPIRED
                          => ExpirationPassed(invoices[i], now))
                  /\ (ExpirationPassed(invoices[i], now)
                      /\ invoices[i].expires_at # Some(0)
                          => invoices'[i].status = EXPIRED))]_vars

\* A check has returned a still pending invoice from the "transaction already
\* saved" branch.
C3_Witness ==
    /\ last.op = "check_invoice_status"
    /\ last.exit = "L302"
    /\ Get(last.result).status = PENDING
    /\ Len(transactions) >= 1

\* C4: a check of a pending invoice whose expiration has passed, with a
\* matching transaction not yet recorded, makes it PAID and records the
\* transaction.
C4_PaidTakesPriorityOverExpired ==
    [][\A i \in InvoiceIds : \A tx \in ReaderAnswers(i) \ {None} :
          (/\ Exists(i)
           /\ invoices[i].status = PENDING
           /\ ExpirationPassed(invoices[i], now)
           /\ ~Recorded(Get(tx))
           /\ CheckInvoiceStatus(i, tx))
              => (invoices'[i].status = PAID /\ Recorded(Get(tx))')]_vars

\* C5: a check of a pending invoice whose expiration is set and has passed,
\* with no matching transaction, stores EXPIRED, returns the invoice as
\* EXPIRED and records no transaction.
C5_ExpiredWithoutPayment ==
    [][\A i \in InvoiceIds :
          (/\ Exists(i)
           /\ invoices[i].status = PENDING
           /\ ExpirationPassed(invoices[i], now)
           /\ CheckInvoiceStatus(i, None))
              => (/\ invoices'[i].status = EXPIRED
                  /\ last'.error = ""
                  /\ last'.result = Some(invoices'[i])
                  /\ transactions' = transactions)]_vars

\* C5, for an expiration that is not the timestamp 0: the same statement,
\* which the code satisfies.
C5_HoldsForNonzeroExpiry ==
    [][\A i \in InvoiceIds :
          (/\ Exists(i)
           /\ invoices[i].status = PENDING
           /\ ExpirationPassed(invoices[i], now)
           /\ invoices[i].expires_at # Some(0)
           /\ CheckInvoiceStatus(i, None))
              => (/\ invoices'[i].status = EXPIRED
                  /\ last'.error = ""
                  /\ last'.result = Some(invoices'[i])
                  /\ transactions' = transactions)]_vars

\* C6: a get_wallet_for_user call that follows a successful one for the same
\* (user_id, network) returns the same wallet (identifier, address, key
\* material), saves nothing, and the store holds one wallet for the pair.
C6_WalletIdempotent ==
    [][\A u \in Users, n \in Networks, k \in Keys :
          (/\ last.op = "get_wallet_for_user"
           /\ last.error = ""
           /\ Get(last.result).user_id = u
           /\ Get(last.result).network = n
           /\ GetWalletForUser(u, n, k))
              => (/\ last'.result = last.result
                  /\ last'.error = ""
                  /\ last'.exit = "L111"
                  /\ last'.calls = <<>>
                  /\ wallets' = wallets
                  /\ Cardinality(WalletsOf(wallets', u, n)) = 1)]_vars

\* The second of two get_wallet_for_user calls (no invoice was created, so
\* the wallet it found was saved by an earlier get_wallet_for_user call).
C6_Witness ==
    /\ last.op = "get_wallet_for_user"
    /\ last.exit = "L111"
    /\ invoices = <<>>
    /\ Len(wallets) = Cardinality(Users \X Networks)
    /\ Cardinality(WalletsOf(wallets, Get(last.result).user_id,
                             Get(last.result).network)) = 1

\* C7: over a wallet store that enforces uniqueness, every concurrent
\* get_wallet_for_user call for a pair returns the one persisted wallet.
C7_ConcurrentCallsAllReturnTheWallet ==
    unique =>
        \A p \in Procs :
            (procs[p].op = "get_wallet_for_user" /\ procs[p].pc = "done")
                => (/\ procs[p].error = ""
                    /\ Cardinality(WalletsOf(wallets, procs[p].user_id,
                                             procs[p].network)) = 1
                    /\ procs[p].result = WalletRepository_get_wallet_for_user(
                           wallets, procs[p].user_id, procs[p].network))

\* C8: over a transaction store that rejects a second insert of a
\* (hash, network), all the PAID writes made for one on-chain transaction are
\* for one invoice.
C8_OneInvoicePaidPerTransaction ==
    unique =>
        \A a, b \in 1..Len(paidLog) :
            SameChainTransaction(paidLog[a], paidLog[b])
                => paidLog[a].invoice_id = paidLog[b].invoice_id

\* Two concurrent checks of different invoices got the same transaction from
\* the reader: one paid its invoice, the other's insert was rejected.
C8_Witness ==
    /\ unique
    /\ Len(transactions) = 1
    /\ \E p, q \in Procs :
           /\ procs[p].op = "check_invoice_status"
           /\ procs[q].op = "check_invoice_status"
           /\ procs[p].invoice_id # procs[q].invoice_id
           /\ procs[p].exit = "L310"
           /\ procs[q].exit = "L305"
           /\ invoices[procs[p].invoice_id].status = PAID
           /\ invoices[procs[q].invoice_id].status # PAID

\* C9: of two concurrent checks of one invoice that both passed the dedup
\* lookup, the one whose insert the store rejects goes on as the "transaction
\* already recorded" branch does (expiration re-check, then the invoice is
\* returned) and raises nothing.
C9_RejectedInsertFoldsBack ==
    [][\A p, q \in Procs :
          (/\ p # q
           /\ procs[q].op = "check_invoice_status"
           /\ procs[q].invoice_id = procs[p].invoice_id
           /\ procs[p].pc = "check_save_transaction"
           /\ unique
           /\ Recorded(Get(procs[p].transaction))
           /\ procs'[p] # procs[p])
              => (/\ procs'[p].error = ""
                  /\ \/ procs'[p].pc = "check_update_expired"
                     \/ procs'[p].pc = "done" /\ IsSome(procs'[p].result))]_vars

\* C10: under concurrent checks and an advancing clock, over stores that
\* enforce their uniqueness constraints, a stored status that is PAID or
\* EXPIRED never changes.
C10_TerminalNeverLeft ==
    [][unique =>
          \A i \in 1..Len(invoices) :
              Terminal(invoices[i].status)
                  => invoices'[i].status = invoices[i].status]_vars

\* C11: when a check_invoice_status call has recorded the Transaction of an
\* invoice and failed before the PAID status was stored (the invoice is still
\* PENDING), a later check_invoice_status call on the invoice to which the
\* reader yields the same transaction leaves the invoice PAID.
RecordedFor(i, tx) ==
    \E k \in 1..Len(transactions) :
        /\ SameChainTransaction(transactions[k], tx)
        /\ transactions[k].invoice_id = i

C11_RecordedWithoutPaidIsRepaired ==
    [][\A i \in InvoiceIds : \A tx \in ReaderAnswers(i) :
          (/\ Exists(i)
           /\ invoices[i].status = PENDING
           /\ IsSome(tx)
           /\ RecordedFor(i, Get(tx))
           /\ CheckInvoiceStatus(i, tx))
              => invoices'[i].status = PAID]_vars

\* C12: check_invoice_status on an id that is not in the invoice store raises
\* the not-found error, changes none of the three stores and makes no call to
\* the blockchain reader.
C12_UnknownInvoiceFails ==
    [][\A i \in InvoiceIds : \A tx \in ReaderAnswers(i) :
          (~Exists(i) /\ CheckInvoiceStatus(i, tx))
              => (/\ last'.error = "InvoiceNotFound"
                  /\ last'.result = None
                  /\ last'.calls = <<>>
                  /\ invoices' = invoices
                  /\ wallets' = wallets
                  /\ transactions' = transactions)]_vars

C12_Witness ==
    /\ last.op = "check_invoice_status"
    /\ last.error = "InvoiceNotFound"
    /\ Len(invoices) = 1
    /\ wallets # <<>>
    /\ transactions # <<>>

\* C13: create_fiat_invoice when the provider has no exchange rate raises the
\* rate-unavailable error and persists nothing: no wallet is generated or
\* saved, no invoice is saved.
Made(calls, name) == \E k \in 1..Len(calls) : calls[k] = name

C13_NoRateNothingPersisted ==
    [][\A u \in InvoiceUsers, n \in InvoiceNetworks, a \in FiatAmounts,
         x \in ExpiryInputs, k \in InvoiceKeys :
          CreateFiatInvoice(u, n, a, x, None, k)
              => (/\ last'.error = "RateUnavailable"
                  /\ last'.result = None
                  /\ ~Made(last'.calls, "generate_wallet")
                  /\ wallets' = wallets
                  /\ invoices' = invoices
                  /\ transactions' = transactions)]_vars

C13_Witness ==
    /\ last.op = "create_fiat_invoice"
    /\ last.error = "RateUnavailable"
    /\ wallets = <<>>
    /\ invoices = <<>>

\* C16: create_fiat_invoice stores, as crypto_amount, the exact decimal
\* product fiat_amount * reverted_rate of the rate it retrieved: no digit of
\* the product is rounded away.
TrailingZeros(s) ==
    IF IsZeroDigits(s) THEN Len(s) - 1
    ELSE CHOOSE t \in 0..(Len(s) - 1) :
             s[Len(s) - t] # 0 /\ \A j \in (Len(s) - t + 1)..Len(s) : s[j] = 0

\* The value of a decimal: trailing zeros of the coefficient moved to the
\* exponent; zero is 0 * 10^0.
DecimalValue(d) ==
    IF IsZeroDigits(d.digits) THEN Decimal(0, <<0>>, 0)
    ELSE Decimal(d.sign, SubSeq(d.digits, 1, Len(d.digits) - TrailingZeros(d.digits)),
                 d.exp + TrailingZeros(d.digits))

ExactProduct(a, b) ==
    Decimal((a.sign + b.sign) % 2, IntMul(a.digits, b.digits), a.exp + b.exp)

C16_CryptoAmountIsExactProduct ==
    [][\A u \in InvoiceUsers, n \in InvoiceNetworks, a \in FiatAmounts,
         x \in ExpiryInputs, r \in RevertedRates, k \in InvoiceKeys :
          CreateFiatInvoice(u, n, a, x, Some(ExchangeRate(r)), k)
              => (/\ Len(invoices') = Len(invoices) + 1
                  /\ DecimalValue(invoices'[Len(invoices')].crypto_amount)
                         = DecimalValue(ExactProduct(a, r)))]_vars

\* C16, for the products that fit the 28 digits of the context: the stored
\* amount is the exact product (100 * 0.0005 = 0.05), which the code satisfies.
C16_ExactWithinPrecision ==
    [][\A u \in InvoiceUsers, n \in InvoiceNetworks, a \in FiatAmounts,
         x \in ExpiryInputs, r \in RevertedRates, k \in InvoiceKeys :
          (/\ Len(ExactProduct(a, r).digits) <= DecimalPrec
           /\ CreateFiatInvoice(u, n, a, x, Some(ExchangeRate(r)), k))
              => (/\ Len(invoices') = Len(invoices) + 1
                  /\ DecimalValue(invoices'[Len(invoices')].crypto_amount)
                         = DecimalValue(ExactProduct(a, r)))]_vars

\* C14: one transfer_from_wallet call calls the network client's
\* transfer_amount at most once; when decryption fails it is not called and
\* the failure reaches the caller, when the transfer fails it was called once
\* and the failure reaches the caller.
CountCalls(calls, name) == Cardinality({k \in 1..Len(calls) : calls[k] = name})

C14_TransferAtMostOnce ==
    [][\A u \in Users, n \in Networks, k \in Keys, h \in InvoiceHashes,
         fail \in TransferFailures :
          (/\ last'.op = "transfer_from_wallet"
           /\ TransferFromWallet(u, n, k, h, fail))
              => LET sent == CountCalls(last'.calls, "transfer_amount")
                 IN  /\ sent <= 1
                     /\ fail = "decrypt_bytes"
                            => (/\ last'.error = "DecryptionFailed"
                                /\ last'.result = None
                                /\ sent = 0)
                     /\ fail = "transfer_amount"
                            => (/\ last'.error = "TransferFailed"
                                /\ last'.result = None
                                /\ sent = 1)
                     /\ fail = ""
                            => (/\ last'.error = ""
                                /\ last'.result = Some(h)
                                /\ sent = 1)]_vars

C14_Witness ==
    /\ last.op = "transfer_from_wallet"
    /\ last.error = "TransferFailed"
    /\ CountCalls(last.calls, "transfer_amount") = 1
    /\ wallets # <<>>

\* C15: the invoice a successful create_fiat_invoice or create_crypto_invoice
\* call returns is in the invoice store, with status PENDING; and a step of
\* any operation other than check_invoice_status leaves the status of every
\* stored invoice as it was.
CreatedPending ==
    /\ last'.error = ""
    /\ LET invoice == Get(last'.result)
       IN  /\ invoice.status = PENDING
           /\ Len(invoices') = Len(invoices) + 1
           /\ invoice.id = Len(invoices')
           /\ invoices'[invoice.id] = invoice

C15_CreatedPendingAndOnlyChecksChangeStatus ==
    [][/\ \A u \in InvoiceUsers, n \in InvoiceNetworks, x \in ExpiryInputs,
            k \in InvoiceKeys :
              (/\ last'.op = "create_crypto_invoice"
               /\ CreateCryptoInvoice(u, n, x, k)) => CreatedPending
       /\ \A u \in InvoiceUsers, n \in InvoiceNetworks, a \in InvoiceFiatAmounts,
            r \in InvoiceRateAnswers, k \in InvoiceKeys :
              (/\ last'.op = "create_fiat_invoice"
               /\ IsSome(r)
               /\ CreateFiatInvoice(u, n, a, None, r, k)) => CreatedPending
       /\ (\/ last'.op # "check_invoice_status"
           \/ ~ \E i \in InvoiceIds : \E tx \in InvoiceReaderAnswers(i) :
                    CheckInvoiceStatus(i, tx))
              => \A i \in 1..Len(invoices) :
                     /\ i <= Len(invoices')
                     /\ invoices'[i].status = invoices[i].status]_vars

C15_Witness ==
    /\ last.op = "create_fiat_invoice"
    /\ last.error = ""
    /\ Len(invoices) = 2
    /\ invoices[1].status = PAID
    /\ invoices[2].status = PENDING

\* C20: after any sequence of the five operations the wallet store holds at
\* most one wallet per (user_id, network), and no step changes a wallet that
\* is stored: its identifier, address and encrypted private key stay.
C20_OneWalletPerUserAndNetworkUnchanged ==
    /\ [](\A u \in Users, n \in Networks : Cardinality(WalletsOf(wallets, u, n)) <= 1)
    /\ [][\A k \in 1..Len(wallets) :
              /\ k <= Len(wallets')
              /\ wallets'[k] = wallets[k]]_vars

C20_Witness ==
    /\ Len(wallets) = 2
    /\ Len(invoices) = 2
    /\ last.op = "transfer_from_wallet"
    /\ last.error = ""
    /\ last.exit = "L375"
    /\ \E i \in 1..Len(invoices) : invoices[i].status = PAID

\* C17: a check_invoice_status call is at its blockchain query, its invoice
\* was not expired at the initial test and the expiration timestamp (other
\* than the timestamp 0, which is C5's case) has passed since.  If the query
\* finds no transaction, the call goes on to set the invoice EXPIRED and does
\* not return it PENDING; if the query finds a transaction that is already
\* recorded, the step that follows (the lookup in the transaction store,
\* which only gains records) goes on to set the invoice EXPIRED.
ExpiredDuringCheck(f) ==
    /\ f.pc = "check_search"
    /\ IsSome(Get(f.invoice).expires_at)
    /\ Get(Get(f.invoice).expires_at) # 0
    /\ ~ExpirationPassed(Get(f.invoice), f.current_time)
    /\ ExpirationPassed(Get(f.invoice), now)

C17_ExpiryDuringCheckExpires ==
    [][\A p \in Procs :
          /\ (ExpiredDuringCheck(procs[p]) /\ StepSearch(p, None))
                 => procs'[p].pc = "check_update_expired"
          /\ \A tx \in ReaderAnswers(procs[p].invoice_id) :
                 (/\ ExpiredDuringCheck(procs[p])
                  /\ IsSome(tx)
                  /\ Recorded(Get(tx))
                  /\ StepSearch(p, tx))
                     => check_dedup(procs'[p], World, Env(None, K1)).f.pc
                            = "check_update_expired"]_vars

\* C18: a check_invoice_status step that moves an invoice to PAID stores
\* exactly one Transaction record, whose invoice_id is the id of the invoice
\* checked and whose hash and network are those the reader returned; and
\* every PAID invoice has a Transaction record with its own id.
PaidStepRecords(i, tx) ==
    (/\ Exists(i)
     /\ invoices[i].status = PENDING
     /\ CheckInvoiceStatus(i, tx)
     /\ invoices'[i].status = PAID)
        => (/\ IsSome(tx)
            /\ Len(transactions') = Len(transactions) + 1
            /\ SubSeq(transactions', 1, Len(transactions)) = transactions
            /\ LET t == transactions'[Len(transactions')]
               IN  /\ t.invoice_id = i
                   /\ t.hash = Get(tx).hash
                   /\ t.network = Get(tx).network)

PaidHaveOwnTransaction ==
    \A i \in 1..Len(invoices) :
        invoices[i].status = PAID
            => \E k \in 1..Len(transactions) : transactions[k].invoice_id = i

C18_PaidInvoiceOwnsItsTransaction ==
    /\ [][\A i \in InvoiceIds : \A tx \in ReaderAnswersAnyOwner :
              PaidStepRecords(i, tx)]_vars
    /\ []PaidHaveOwnTransaction

\* C18, for a reader that sets the invoice_id of its answer to the id of the
\* invoice it was asked about: the same statement, which the code satisfies.
C18_HoldsWhenReaderBindsInvoice ==
    /\ [][\A i \in InvoiceIds : \A tx \in ReaderAnswers(i) :
              PaidStepRecords(i, tx)]_vars
    /\ []PaidHaveOwnTransaction

\* C19: every stored invoice that the factory created has a stored wallet for
\* its (user_id, network), and check_invoice_status on such an invoice never
\* fails with wallet-not-found; a check_invoice_status call on an invoice
\* whose wallet is absent fails with wallet-not-found and changes neither the
\* invoice store nor the transaction store.
HasWallet(invoice) == WalletsOf(wallets, invoice.user_id, invoice.network) # {}

FactoryInvoicesHaveWallets ==
    \A i \in 1..Len(invoices) :
        invoices[i].user_id \in InvoiceUsers => HasWallet(invoices[i])

FactoryInvoiceCheckFindsWallet ==
    \A i \in InvoiceIds : \A tx \in InvoiceReaderAnswers(i) :
        (/\ Exists(i)
         /\ invoices[i].user_id \in InvoiceUsers
         /\ CheckInvoiceStatus(i, tx))
            => last'.error # "WalletNotFound"

FailsWithoutChange ==
    /\ last'.error = "WalletNotFound"
    /\ last'.result = None
    /\ invoices' = invoices
    /\ transactions' = transactions

C19_AbsentWalletAlwaysFails ==
    /\ []FactoryInvoicesHaveWallets
    /\ [][FactoryInvoiceCheckFindsWallet]_vars
    /\ [][\A i \in InvoiceIds : \A tx \in InvoiceReaderAnswers(i) :
              (/\ Exists(i)
               /\ ~HasWallet(invoices[i])
               /\ CheckInvoiceStatus(i, tx))
                  => FailsWithoutChange]_vars

\* C19 as amended: the call on an invoice whose wallet is absent fails that
\* way when it reaches the wallet lookup, that is when the invoice is PENDING
\* and the expiration test before the lookup does not expire it.
C19_AbsentWalletFailsAtLookup ==
    /\ []FactoryInvoicesHaveWallets
    /\ [][FactoryInvoiceCheckFindsWallet]_vars
    /\ [][\A i \in InvoiceIds : \A tx \in InvoiceReaderAnswers(i) :
              (/\ Exists(i)
               /\ ~HasWallet(invoices[i])
               /\ invoices[i].status = PENDING
               /\ ~IsExpired(invoices[i], now)
               /\ CheckInvoiceStatus(i, tx))
                  => FailsWithoutChange]_vars

C19_Witness ==
    /\ last.op = "check_invoice_status"
    /\ last.error = "WalletNotFound"
    /\ Len(invoices) = 2
    /\ ~HasWallet(invoices[1])
    /\ HasWallet(invoices[2])
    /\ invoices[2].status = PAID

\* C21: a get_wallet_for_user call in which generate_wallet, encrypt_bytes or
\* save_wallet fails ends with that failure, returns nothing, and no wallet
\* for its (user_id, network) is in the wallet store afterwards; a
\* create_crypto_invoice or create_fiat_invoice call that fails this way has
\* saved no invoice.
ProvisioningFailed(f) ==
    /\ f.pc = "done"
    /\ f.op \in {"get_wallet_for_user", "create_crypto_invoice", "create_fiat_invoice"}
    /\ f.error \in {"CollaboratorFailure", "UniqueViolation"}
    /\ f.exit \in {"L114", "L117", "L130"}

\* The last call, made by the sequential client, failed in provisioning.
LastFailedProvisioning ==
    /\ last' # last
    /\ last'.op \in {"get_wallet_for_user", "create_crypto_invoice", "create_fiat_invoice"}
    /\ last'.error # ""

\* The step of process p in which its call fails in provisioning.
FailsProvisioning(p) == procs'[p] # procs[p] /\ ProvisioningFailed(procs'[p])

\* A sequential call in which the collaborator fails: it fails whenever no
\* wallet is stored for the pair, and then as the claim says.
SequentialFailureLeavesNoWallet ==
    /\ \A u \in InvoiceUsers, n \in InvoiceNetworks, k \in InvoiceKeys,
         fail \in ProvisioningFailures :
           /\ (/\ last' # last
               /\ WalletsOf(wallets, u, n) = {}
               /\ \/ GetWalletForUserFailing(u, n, k, fail)
                  \/ CreateCryptoInvoiceFailing(u, n, None, k, fail)
                  \/ \E a \in InvoiceFiatAmounts :
                         CreateFiatInvoiceFailing(u, n, a, None, ProvisioningRate, k, fail))
                  => (/\ last'.error = "CollaboratorFailure"
                      /\ last'.exit \in {"L114", "L117", "L130"})
    /\ LastFailedProvisioning
           => (/\ last'.result = None
               /\ wallets' = wallets
               /\ invoices' = invoices
               /\ \A u \in InvoiceUsers, n \in InvoiceNetworks :
                      (\E k \in InvoiceKeys, fail \in ProvisioningFailures :
                           \/ GetWalletForUserFailing(u, n, k, fail)
                           \/ CreateCryptoInvoiceFailing(u, n, None, k, fail)
                           \/ \E a \in InvoiceFiatAmounts :
                                  CreateFiatInvoiceFailing(u, n, a, None,
                                                           ProvisioningRate, k, fail))
                          => WalletsOf(wallets', u, n) = {})

C21_FailedProvisioningLeavesNoWallet ==
    [][/\ SequentialFailureLeavesNoWallet
       /\ \A p \in Procs :
              FailsProvisioning(p)
                  => (/\ procs'[p].result = None
                      /\ invoices' = invoices
                      /\ WalletsOf(wallets', procs'[p].user_id,
                                   procs'[p].network) = {})]_vars

\* C21 as amended: the failed call has written nothing (the step that fails
\* leaves the wallet store and the invoice store as they were, and it is the
\* call's first step that could write), so a wallet for the pair is in the
\* store afterwards only if another call saved it before the failure; after
\* a call that ran without interleaving there is none.
C21_FailedProvisioningWritesNothing ==
    [][/\ SequentialFailureLeavesNoWallet
       /\ \A p \in Procs :
              /\ FailsProvisioning(p)
                     => (/\ procs'[p].result = None
                         /\ invoices' = invoices
                         /\ wallets' = wallets)
              /\ (procs'[p] # procs[p] /\ (wallets' # wallets \/ invoices' # invoices))
                     => (/\ procs'[p].error = ""
                         /\ procs'[p].pc \in {"done", "create_crypto_save"})]_vars

\* A create_crypto_invoice call has failed at save_wallet and a
\* create_fiat_invoice call at one of the three calls: no wallet, no invoice.
C21_Witness ==
    /\ \E p \in Procs :
           /\ procs[p].op = "create_crypto_invoice"
           /\ ProvisioningFailed(procs[p])
           /\ procs[p].error = "CollaboratorFailure"
           /\ procs[p].exit = "L130"
    /\ last.op = "create_fiat_invoice"
    /\ last.error = "CollaboratorFailure"
    /\ wallets = <<>>
    /\ invoices = <<>>

\* C22: a transfer_from_wallet call in which no collaborator fails hands to
\* transfer_amount the raw private key that was generated when the wallet of
\* its (user_id, network) was provisioned, whatever the key (the empty one
\* included), and returns the hash the network client answered with; the
\* key material of every stored wallet decrypts to the key generated.

\* str.encode('utf-8'): the bytes of a str, by which a str and the key it
\* was decoded from are compared.
utf8_encode_point(cp) ==
    IF cp < 128 THEN <<cp>>
    ELSE IF cp < 2048 THEN <<192 + (cp \div 64), 128 + (cp % 64)>>
    ELSE IF cp < 65536
         THEN <<224 + (cp \div 4096), 128 + ((cp \div 64) % 64), 128 + (cp % 64)>>
    ELSE <<240 + (cp \div 262144), 128 + ((cp \div 4096) % 64),
           128 + ((cp \div 64) % 64), 128 + (cp % 64)>>

RECURSIVE utf8_encode(_)
utf8_encode(points) ==
    IF points = <<>> THEN <<>>
    ELSE utf8_encode_point(Head(points)) \o utf8_encode(Tail(points))

\* The key a wallet was generated with: its address was generated with it.
RawKeyOf(wallet) == wallet.address[2]

\* The key of the wallet that a call for (user_id, network) uses: the stored
\* wallet's, or the one generate_wallet answers with during the call.
ProvisionedKey(user_id, network, key) ==
    LET wallet == WalletRepository_get_wallet_for_user(wallets, user_id, network)
    IN  IF IsSome(wallet) THEN RawKeyOf(Get(wallet)) ELSE key

StoredKeysDecrypt ==
    \A k \in 1..Len(wallets) :
        decrypt_bytes(wallets[k].private_key_encrypted) = RawKeyOf(wallets[k])

C22_HandedKeyIsRawKey ==
    /\ []StoredKeysDecrypt
    /\ [][\A u \in Users, n \in InvoiceNetworks, k \in RawKeys, h \in Hashes :
              (/\ last'.op = "transfer_from_wallet"
               /\ TransferFromWallet(u, n, k, h, ""))
                  => (/\ IsSome(last'.handed)
                      /\ utf8_encode(Get(last'.handed)[2]) = ProvisionedKey(u, n, k)
                      /\ last'.result = Some(h))]_vars

\* C22, for the keys that are well-formed UTF-8, the empty one included: the
\* key handed is the str the raw key decodes to (the text of the same
\* bytes), which the code satisfies; for any other key the call fails at the
\* decoding and transfer_amount is not called.
C22_HandedKeyIsDecodedRawKey ==
    /\ []StoredKeysDecrypt
    /\ [][\A u \in Users, n \in InvoiceNetworks, k \in RawKeys, h \in Hashes :
              (/\ last'.op = "transfer_from_wallet"
               /\ TransferFromWallet(u, n, k, h, ""))
                  => IF utf8_points(ProvisionedKey(u, n, k), 1).ok
                     THEN /\ IsSome(last'.handed)
                          /\ Get(last'.handed)[1] = "str"
                          /\ utf8_encode(Get(last'.handed)[2]) = ProvisionedKey(u, n, k)
                          /\ CountCalls(last'.calls, "transfer_amount") = 1
                          /\ last'.error = ""
                          /\ last'.result = Some(h)
                     ELSE /\ last'.error = "UnicodeDecodeError"
                          /\ last'.exit = "L372"
                          /\ last'.handed = None
                          /\ last'.result = None
                          /\ ~Made(last'.calls, "transfer_amount")]_vars

\* A transfer out of a wallet stored earlier with the empty key has handed the
\* empty str and returned the client's hash; another wallet's key is text
\* outside ASCII.
C22_Witness ==
    /\ last.op = "transfer_from_wallet"
    /\ last.error = ""
    /\ last.exit = "L375"
    /\ last.handed = Some(str(<<>>))
    /\ last.result = Some("h2")
    /\ ~Made(last.calls, "generate_wallet")
    /\ Len(wallets) = 2
    /\ \E k \in 1..Len(wallets) : RawKeyOf(wallets[k]) = <<195, 169>>

\* C23: under a poller that keeps checking and a clock that keeps advancing,
\* a stored PENDING invoice whose expiration timestamp is set eventually is
\* PAID or EXPIRED, and an invoice that is PAID or EXPIRED stays as it is.
PendingWithExpiration(i) ==
    /\ Exists(i)
    /\ invoices[i].status = PENDING
    /\ IsSome(invoices[i].expires_at)

IsTerminal(i) == Exists(i) /\ Terminal(invoices[i].status)

TerminalStays ==
    \A i \in 1..Len(invoices) :
        Terminal(invoices[i].status) => invoices'[i].status = invoices[i].status

C23_PolledInvoiceReachesTerminal ==
    /\ \A i \in InvoiceIds : PendingWithExpiration(i) ~> IsTerminal(i)
    /\ [][TerminalStays]_vars

\* C23, for an expiration that is not the timestamp 0: the same statement,
\* which the code satisfies.
C23_HoldsForNonzeroExpiry ==
    /\ \A i \in InvoiceIds :
           (PendingWithExpiration(i) /\ invoices[i].expires_at # Some(0))
               ~> IsTerminal(i)
    /\ [][TerminalStays]_vars

\* C24: a stored invoice without an expiration timestamp is never set
\* EXPIRED, at any clock value and whatever the reader answers: a step leaves
\* it PENDING unless it is a check_invoice_status call on it to which the
\* reader yields a transaction not yet recorded, and that call records the
\* transaction and sets it PAID; once PAID it stays PAID.
WithoutExpiration(i) == Exists(i) /\ invoices[i].expires_at = None

PaidByNewTransaction(i) ==
    \E tx \in ReaderAnswers(i) \ {None} :
        /\ ~Recorded(Get(tx))
        /\ CheckInvoiceStatus(i, tx)
        /\ Recorded(Get(tx))'

C24_WithoutExpirationNeverExpires ==
    /\ [](\A i \in InvoiceIds : WithoutExpiration(i) => invoices[i].status # EXPIRED)
    /\ [][\A i \in InvoiceIds :
              WithoutExpiration(i)
                  => (/\ invoices'[i].expires_at = None
                      /\ invoices'[i].status \in {invoices[i].status, PAID}
                      /\ invoices'[i].status # invoices[i].status
                             => (/\ invoices[i].status = PENDING
                                 /\ last'.op = "check_invoice_status"
                                 /\ PaidByNewTransaction(i)))]_vars

\* At the last clock value a check has returned an invoice without
\* expiration still PENDING, after another one was paid.
C24_Witness ==
    /\ now = MaxTime
    /\ last.op = "check_invoice_status"
    /\ last.exit = "L291"
    /\ Get(last.result).expires_at = None
    /\ Get(last.result).status = PENDING
    /\ \E i \in 1..Len(invoices) :
           invoices[i].expires_at = None /\ invoices[i].status = PAID

====
